---------------------------- MODULE Spec2Model ----------------------------
(***************************************************************************)
(* Model of the "Should You Take Your Coat?" page (src/unnamed/part_000;   *)
(* src/app/page.tsx is the same Home component without the location-name   *)
(* lookup).                                                                *)
(*                                                                         *)
(* Numbers.  The forecast API reports temperature, wind speed, humidity    *)
(* and precipitation with a fractional part; the model carries every raw   *)
(* reading in TENTHS (temperature 205 is 20.5 degrees C) and the running   *)
(* perceived temperature in THOUSANDTHS, so that the products by 0.1 and   *)
(* 0.05 of the source are exact integers.  Values of the WeatherData       *)
(* record are whole numbers, as Math.round leaves them.                    *)
(***************************************************************************)
EXTENDS Integers, Sequences, FiniteSets, TLC

VARIABLES
    location,        \* useState<LocationData | null>
    weather,         \* useState<WeatherData | null>
    loading,         \* useState(false)
    error,           \* useState<string | null>
    hasGeolocation,  \* "geolocation" in navigator
    positionRequests,\* outstanding navigator.geolocation.getCurrentPosition calls
    nameLookups,     \* outstanding getLocationName calls
    forecasts,       \* outstanding getWeatherForecast calls
    triggers,        \* number of getLocation calls so far (names the cycles)
    issued,          \* per cycle: how many position requests / forecasts it started
    locationOf,      \* the cycle whose callback set location
    weatherOf,       \* the cycle whose forecast set weather
    outcome,         \* per cycle: how the cycle ended
    errorOf,         \* the cycle whose failure set error
    weatherAt,       \* the number of triggers there had been when weather was set
    raw,             \* the observation handed to the normalizer
    clock,           \* new Date().getHours()
    prevRaw,         \* the observation of the previous normalization
    prevWeather,     \* the record of the previous normalization
    takeCoat,        \* what shouldTakeCoat() returned at the last render
    pc               \* position of the driver of the pure functions

\* The component's state but the weather, and what is in flight around it.
component == <<location, loading, error, hasGeolocation,
               positionRequests, nameLookups, forecasts, triggers, issued,
               locationOf, weatherOf, outcome, errorOf, weatherAt>>
\* The driver of the pure functions.
driver == <<raw, clock, prevRaw, prevWeather, takeCoat, pc>>
vars == <<location, weather, loading, error, hasGeolocation,
          positionRequests, nameLookups, forecasts, triggers, issued,
          locationOf, weatherOf, outcome, errorOf, weatherAt,
          raw, clock, prevRaw, prevWeather, takeCoat, pc>>

\* JavaScript's null, for the state fields that hold a record or null.
null == [isNull |-> TRUE]

---------------------------------------------------------------------------
(* Constants of the source *)

HIGH_WIND_THRESHOLD == 20
HIGH_HUMIDITY_THRESHOLD == 70
MORNING_HOUR == 6
EVENING_HOUR == 18

---------------------------------------------------------------------------
(* Bounds of the model *)

\* Raw temperatures: 20.0 degrees +- TempSpan tenths, and -0.5 degrees.
TempSpan == 10
\* Raw wind speeds: 20.0 km/h +- WindSpan half km/h, and -5.0 km/h.
WindSpan == 3
\* Raw humidities: 70.0 % +- HumSpan half points, and 110.0 %.
HumSpan == 2

\* Whole-degree temperatures of the decision's driver: 15 - DegSpan to
\* 20 + DegSpan degrees, around the 15, 18 and 20 degree rules.
DegSpan == 4
\* How many degrees colder the driver makes a decided record.
MaxColder == 4

Hours == 0 .. 23

RawTemperatures == {200 + k : k \in (0 - TempSpan) .. TempSpan} \cup {-5}
RawWindSpeeds   == {200 + 5 * k : k \in (0 - WindSpan) .. WindSpan} \cup {-50}
RawHumidities   == {700 + 5 * k : k \in (0 - HumSpan) .. HumSpan} \cup {1100}
RawPrecipitations == {0, 1}

RawObservations ==
    [temperature : RawTemperatures, precipitation : RawPrecipitations,
     windSpeed : RawWindSpeeds, humidity : RawHumidities]

---------------------------------------------------------------------------
(* The weather normalizer: getWeatherForecast, after the response is read *)

\* Math.round of x/unit: the nearest integer, a tie going up.
MathRound(x, unit) == (2 * x + unit) \div (2 * unit)

\* perceivedTemp with the wind adjustment added instead of subtracted.
perceivedTemp_windWarms(temperature, windSpeed, humidity, currentHour) ==
    LET start == temperature * 100
        windChill ==
            IF windSpeed > HIGH_WIND_THRESHOLD * 10
            THEN start + (windSpeed - HIGH_WIND_THRESHOLD * 10) * 10
            ELSE start
        humid ==
            IF humidity > HIGH_HUMIDITY_THRESHOLD * 10
            THEN IF temperature > 20 * 10
                 THEN windChill + (humidity - HIGH_HUMIDITY_THRESHOLD * 10) * 10
                 ELSE windChill - (humidity - HIGH_HUMIDITY_THRESHOLD * 10) * 5
            ELSE windChill
    IN  IF currentHour < MORNING_HOUR \/ currentHour > EVENING_HOUR
        THEN humid - 2 * 1000
        ELSE humid

\* Lines 78-99: the running perceivedTemp, in thousandths of a degree.
perceivedTemp(temperature, windSpeed, humidity, currentHour) ==
    LET start == temperature * 100
        windChill ==
            IF windSpeed > HIGH_WIND_THRESHOLD * 10
            THEN start - (windSpeed - HIGH_WIND_THRESHOLD * 10) * 10
            ELSE start
        humid ==
            IF humidity > HIGH_HUMIDITY_THRESHOLD * 10
            THEN IF temperature > 20 * 10
                 THEN windChill + (humidity - HIGH_HUMIDITY_THRESHOLD * 10) * 10
                 ELSE windChill - (humidity - HIGH_HUMIDITY_THRESHOLD * 10) * 5
            ELSE windChill
    IN  IF currentHour < MORNING_HOUR \/ currentHour > EVENING_HOUR
        THEN humid - 2 * 1000
        ELSE humid

\* getWeatherForecast with the readings rounded before the adjustments.
getWeatherForecast_roundsFirst(current, currentHour) ==
    [temperature   |-> MathRound(current.temperature, 10),
     isRainy       |-> current.precipitation > 0,
     windSpeed     |-> MathRound(current.windSpeed, 10),
     humidity      |-> MathRound(current.humidity, 10),
     hour          |-> currentHour,
     perceivedTemp |-> MathRound(perceivedTemp(MathRound(current.temperature, 10) * 10,
                                               MathRound(current.windSpeed, 10) * 10,
                                               MathRound(current.humidity, 10) * 10,
                                               currentHour), 1000)]

\* getWeatherForecast reporting the perceived temperature as the temperature.
getWeatherForecast_reportsPerceived(current, currentHour) ==
    [temperature   |-> MathRound(perceivedTemp(current.temperature, current.windSpeed,
                                               current.humidity, currentHour), 1000),
     isRainy       |-> current.precipitation > 0,
     windSpeed     |-> MathRound(current.windSpeed, 10),
     humidity      |-> MathRound(current.humidity, 10),
     hour          |-> currentHour,
     perceivedTemp |-> MathRound(perceivedTemp(current.temperature, current.windSpeed,
                                               current.humidity, currentHour), 1000)]

\* Lines 69-108: the WeatherData record made of the four variables read from
\* the response and of the current hour.
getWeatherForecast(current, currentHour) ==
    [temperature   |-> MathRound(current.temperature, 10),
     isRainy       |-> current.precipitation > 0,
     windSpeed     |-> MathRound(current.windSpeed, 10),
     humidity      |-> MathRound(current.humidity, 10),
     hour          |-> currentHour,
     perceivedTemp |-> MathRound(perceivedTemp(current.temperature, current.windSpeed,
                                               current.humidity, currentHour), 1000)]

---------------------------------------------------------------------------
(* The coat decision: shouldTakeCoat, over the weather the component holds *)

\* shouldTakeCoat counting 6 and 18 o'clock as night.
shouldTakeCoat_nightInclusive(w) ==
    IF w = null THEN FALSE
    ELSE LET isCold      == w.perceivedTemp < 15
             isRainy     == w.isRainy
             isWindy     == w.windSpeed > HIGH_WIND_THRESHOLD
             isNightTime == w.hour <= MORNING_HOUR \/ w.hour >= EVENING_HOUR
         IN  isCold \/ isRainy
             \/ (isWindy /\ w.perceivedTemp < 20)
             \/ (isNightTime /\ w.perceivedTemp < 18)

\* shouldTakeCoat with the night rule's comparison turned round.
shouldTakeCoat_nightWarm(w) ==
    IF w = null THEN FALSE
    ELSE LET isCold      == w.perceivedTemp < 15
             isRainy     == w.isRainy
             isWindy     == w.windSpeed > HIGH_WIND_THRESHOLD
             isNightTime == w.hour < MORNING_HOUR \/ w.hour > EVENING_HOUR
         IN  isCold \/ isRainy
             \/ (isWindy /\ w.perceivedTemp < 20)
             \/ (isNightTime /\ w.perceivedTemp > 18)

shouldTakeCoat(w) ==
    IF w = null THEN FALSE
    ELSE LET isCold      == w.perceivedTemp < 15
             isRainy     == w.isRainy
             isWindy     == w.windSpeed > HIGH_WIND_THRESHOLD
             isNightTime == w.hour < MORNING_HOUR \/ w.hour > EVENING_HOUR
         IN  isCold \/ isRainy
             \/ (isWindy /\ w.perceivedTemp < 20)
             \/ (isNightTime /\ w.perceivedTemp < 18)

---------------------------------------------------------------------------
(* The Home component at rest, for the specifications of the pure functions *)

HomeInit ==
    /\ location = null
    /\ weather = null
    /\ loading = FALSE
    /\ error = null
    /\ positionRequests = {}
    /\ nameLookups = {}
    /\ forecasts = {}
    /\ triggers = 0
    /\ issued = <<>>
    /\ locationOf = 0
    /\ weatherOf = 0
    /\ outcome = <<>>
    /\ errorOf = 0
    /\ weatherAt = 0

---------------------------------------------------------------------------
(* The Home component: getLocation, the geolocation callbacks, the         *)
(* location-name lookup and the effect that fetches the forecast.           *)

\* How many times the model presses a button.
MaxTriggers == 3

Cycles == 1 .. MaxTriggers

\* Coordinates in hundredths of a degree.
Positions == {[lat |-> 4101, lon |-> 2898], [lat |-> -3345, lon |-> -7067]}

\* What the reverse geocoder can answer: the request is aborted or fails, the
\* status is not ok, the body has no result, the body has a result.
GeocodingReplies ==
    { [kind |-> "rejected"],
      [kind |-> "status"],
      [kind |-> "json", results |-> <<>>],
      [kind |-> "json", results |-> <<[name |-> "Moda", admin3 |-> "",
                                       admin1 |-> "Istanbul", country |-> "Turkey"]>>] }

\* What the forecast API can answer: the request fails, the response has no
\* current block, the block has fewer than 4 variables, the block has the 5
\* variables asked for (10 degrees, dry, wind 30 km/h, humidity 50 %, by day).
ForecastResponses ==
    { [kind |-> "rejected"],
      [kind |-> "empty"],
      [kind |-> "current", variables |-> <<100, 0, 300>>],
      [kind |-> "current", variables |-> <<100, 0, 300, 500, 1>>] }

ResponseHours == {14}

Message(text) == [message |-> text]

\* Lines 156-158 and 171-173: the coordinates as text, two decimals each.
formatCoordinates(lat, lon) ==
    [kind |-> "coordinates",
     lat |-> IF lat >= 0 THEN lat ELSE 0 - lat, latDir |-> IF lat >= 0 THEN "N" ELSE "S",
     lon |-> IF lon >= 0 THEN lon ELSE 0 - lon, lonDir |-> IF lon >= 0 THEN "E" ELSE "W"]

\* Lines 115-175: the name getLocationName resolves to; it never rejects.
getLocationName(lat, lon, reply) ==
    IF reply.kind = "json" /\ Len(reply.results) > 0
    THEN LET place == reply.results[1]
             named == SelectSeq(<<place.name, place.admin3, place.admin1>>,
                                LAMBDA part : part # "")
             locationParts == IF Len(named) = 0 /\ place.country # ""
                              THEN <<place.country>> ELSE named
         IN  IF Len(locationParts) > 0
             THEN [kind |-> "place",
                   parts |-> SubSeq(locationParts, 1,
                                    IF Len(locationParts) < 2 THEN Len(locationParts) ELSE 2)]
             ELSE formatCoordinates(lat, lon)
    ELSE formatCoordinates(lat, lon)

\* Lines 39-113: how the promise of getWeatherForecast settles.  Every
\* variable of a block holds a number (the ?? 0 of lines 69-72 is not used).
forecastSettles(response, currentHour) ==
    IF response.kind # "current" THEN [ok |-> FALSE]
    ELSE IF Len(response.variables) < 4 THEN [ok |-> FALSE]
    ELSE [ok |-> TRUE,
          data |-> getWeatherForecast(
                     [temperature   |-> response.variables[1],
                      precipitation |-> response.variables[2],
                      windSpeed     |-> response.variables[3],
                      humidity      |-> response.variables[4]], currentHour)]

Init ==
    /\ HomeInit
    /\ hasGeolocation \in BOOLEAN
    /\ raw = null
    /\ clock = 0
    /\ prevRaw = null
    /\ prevWeather = null
    /\ takeCoat = FALSE
    /\ pc = "home"

Ends(cycle, how) == outcome' = [outcome EXCEPT ![cycle] = how]

\* Lines 183-207.
getLocation ==
    /\ triggers < MaxTriggers
    /\ triggers' = triggers + 1
    /\ IF hasGeolocation
       THEN /\ loading' = TRUE
            /\ error' = null
            /\ positionRequests' = positionRequests \cup {triggers + 1}
            /\ issued' = Append(issued, [positions |-> 1, forecasts |-> 0])
            /\ outcome' = Append(outcome, "pending")
       ELSE /\ loading' = FALSE
            /\ error' = Message("Geolocation is not supported by your browser")
            /\ positionRequests' = positionRequests
            /\ issued' = Append(issued, [positions |-> 0, forecasts |-> 0])
            /\ outcome' = Append(outcome, "unsupported")
    /\ errorOf' = IF hasGeolocation THEN 0 ELSE triggers + 1
    /\ UNCHANGED <<location, weather, hasGeolocation, nameLookups, forecasts,
                   locationOf, weatherOf, weatherAt, driver>>

\* Lines 244-248: the button shown while there is no location and no loading.
GetMyLocation ==
    /\ pc = "home"
    /\ location = null /\ ~loading
    /\ getLocation

\* Lines 267-271: the button shown once there is a location.
CheckAgain ==
    /\ pc = "home"
    /\ location # null
    /\ getLocation

\* Lines 188-191: the success callback reads the position and awaits the name.
PositionSuccess(cycle) ==
    /\ cycle \in positionRequests
    /\ positionRequests' = positionRequests \ {cycle}
    /\ \E position \in Positions :
          nameLookups' = nameLookups \cup
              {[cycle |-> cycle, lat |-> position.lat, lon |-> position.lon]}
    /\ UNCHANGED <<location, weather, loading, error, hasGeolocation,
                   forecasts, triggers, issued, locationOf, weatherOf,
                   outcome, errorOf, weatherAt, driver>>

\* The error callback forgetting to end the loading.
PositionError_keepsLoading(cycle) ==
    /\ cycle \in positionRequests
    /\ positionRequests' = positionRequests \ {cycle}
    /\ error' = Message("Unable to retrieve your location")
    /\ Ends(cycle, "no position")
    /\ errorOf' = cycle
    /\ UNCHANGED <<location, weather, loading, hasGeolocation, nameLookups,
                   forecasts, triggers, issued, locationOf, weatherOf,
                   weatherAt, driver>>

\* Lines 198-201: the error callback.
PositionError(cycle) ==
    /\ cycle \in positionRequests
    /\ positionRequests' = positionRequests \ {cycle}
    /\ error' = Message("Unable to retrieve your location")
    /\ loading' = FALSE
    /\ Ends(cycle, "no position")
    /\ errorOf' = cycle
    /\ UNCHANGED <<location, weather, hasGeolocation, nameLookups, forecasts,
                   triggers, issued, locationOf, weatherOf, weatherAt,
                   driver>>

\* Lines 191-196 and 209-216: the name arrives, setLocation stores a new
\* object, and the effect on [location] starts the forecast of that location
\* (each setLocation is committed by a render of its own, so each one runs
\* the effect).
NameResolved(lookup) ==
    /\ lookup \in nameLookups
    /\ nameLookups' = nameLookups \ {lookup}
    /\ \E reply \in GeocodingReplies :
          location' = [lat |-> lookup.lat, lon |-> lookup.lon,
                       name |-> getLocationName(lookup.lat, lookup.lon, reply)]
    /\ locationOf' = lookup.cycle
    /\ forecasts' = forecasts \cup
          {[cycle |-> lookup.cycle, lat |-> lookup.lat, lon |-> lookup.lon]}
    /\ issued' = [issued EXCEPT ![lookup.cycle].forecasts = @ + 1]
    /\ UNCHANGED <<weather, loading, error, hasGeolocation, positionRequests,
                   triggers, weatherOf, outcome, errorOf, weatherAt, driver>>

\* Lines 211-214, a forecast that resolves: setWeather, then setLoading(false).
ForecastSuccess(forecast) ==
    /\ forecast \in forecasts
    /\ forecasts' = forecasts \ {forecast}
    /\ \E response \in ForecastResponses, currentHour \in ResponseHours :
          /\ forecastSettles(response, currentHour).ok
          /\ weather' = forecastSettles(response, currentHour).data
    /\ weatherOf' = forecast.cycle
    /\ loading' = FALSE
    /\ Ends(forecast.cycle, "weather")
    /\ weatherAt' = triggers
    /\ UNCHANGED <<location, error, hasGeolocation, positionRequests,
                   nameLookups, triggers, issued, locationOf, errorOf,
                   driver>>

\* The effect fetching again when the forecast fails.
ForecastFailure_retries(forecast) ==
    /\ forecast \in forecasts
    /\ \E response \in ForecastResponses, currentHour \in ResponseHours :
          ~forecastSettles(response, currentHour).ok
    /\ error' = Message("Failed to fetch weather data")
    /\ issued' = [issued EXCEPT ![forecast.cycle].forecasts = @ + 1]
    /\ errorOf' = forecast.cycle
    /\ UNCHANGED <<location, weather, loading, hasGeolocation,
                   positionRequests, nameLookups, forecasts, triggers,
                   locationOf, weatherOf, outcome, weatherAt, driver>>

\* Lines 211-214, a forecast that rejects: setError, then setLoading(false).
ForecastFailure(forecast) ==
    /\ forecast \in forecasts
    /\ forecasts' = forecasts \ {forecast}
    /\ \E response \in ForecastResponses, currentHour \in ResponseHours :
          ~forecastSettles(response, currentHour).ok
    /\ error' = Message("Failed to fetch weather data")
    /\ loading' = FALSE
    /\ Ends(forecast.cycle, "no weather")
    /\ errorOf' = forecast.cycle
    /\ UNCHANGED <<location, weather, hasGeolocation, positionRequests,
                   nameLookups, triggers, issued, locationOf, weatherOf,
                   weatherAt, driver>>

Next ==
    \/ GetMyLocation
    \/ CheckAgain
    \/ \E cycle \in Cycles : PositionSuccess(cycle)
    \/ \E cycle \in Cycles : PositionError(cycle)
    \/ \E lookup \in nameLookups : NameResolved(lookup)
    \/ \E forecast \in forecasts : ForecastSuccess(forecast)
    \/ \E forecast \in forecasts : ForecastFailure(forecast)

Spec == Init /\ [][Next]_vars

\* Every started position request, name lookup and forecast settles.
Settles ==
    /\ \A cycle \in Cycles :
          WF_vars(PositionSuccess(cycle) \/ PositionError(cycle))
    /\ WF_vars(\E lookup \in nameLookups : NameResolved(lookup))
    /\ WF_vars(\E forecast \in forecasts :
                  ForecastSuccess(forecast) \/ ForecastFailure(forecast))

FairSpec == Spec /\ Settles

---------------------------------------------------------------------------
(* Driver of the normalizer: one observation, normalized, then normalized   *)
(* again from its own rounded fields or with more wind or more humidity.    *)

WindIncreases == {1, 5, 100}
HumidityIncreases == {5, 100, 200}

NormalizerInit ==
    /\ HomeInit
    /\ hasGeolocation = TRUE
    /\ raw \in RawObservations
    /\ clock \in Hours
    /\ prevRaw = null
    /\ prevWeather = null
    /\ takeCoat = FALSE
    /\ pc = "raw"

Normalize ==
    /\ pc = "raw"
    /\ weather' = getWeatherForecast(raw, clock)
    /\ pc' = "normalized"
    /\ UNCHANGED <<component, raw, clock, prevRaw, prevWeather, takeCoat>>

NormalizeAgain(next, label) ==
    /\ prevRaw' = raw
    /\ prevWeather' = weather
    /\ raw' = next
    /\ weather' = getWeatherForecast(next, clock)
    /\ pc' = label
    /\ UNCHANGED <<component, clock, takeCoat>>

\* The rounded fields of the record, taken as a raw observation.
Renormalize ==
    /\ pc = "normalized"
    /\ NormalizeAgain([temperature   |-> weather.temperature * 10,
                       precipitation |-> raw.precipitation,
                       windSpeed     |-> weather.windSpeed * 10,
                       humidity      |-> weather.humidity * 10], "renormalized")

MoreWind ==
    /\ pc = "normalized"
    /\ raw.windSpeed >= HIGH_WIND_THRESHOLD * 10
    /\ \E d \in WindIncreases :
          NormalizeAgain([raw EXCEPT !.windSpeed = @ + d], "windier")

MoreHumidity ==
    /\ pc = "normalized"
    /\ raw.humidity >= HIGH_HUMIDITY_THRESHOLD * 10
    /\ \E d \in HumidityIncreases :
          NormalizeAgain([raw EXCEPT !.humidity = @ + d], "more humid")

NormalizerNext == Normalize \/ Renormalize \/ MoreWind \/ MoreHumidity

NormalizerSpec == NormalizerInit /\ [][NormalizerNext]_vars

---------------------------------------------------------------------------
(* Properties of the Home component *)

\* The cycles with a position request, a name lookup or a forecast outstanding.
InFlight ==
    positionRequests \cup {lookup.cycle : lookup \in nameLookups}
                     \cup {forecast.cycle : forecast \in forecasts}

Messages ==
    { Message("Geolocation is not supported by your browser"),
      Message("Unable to retrieve your location"),
      Message("Failed to fetch weather data") }

\* C6: whenever an error message is set it is one of the short messages and
\* no weather is held that was set before the failing cycle was triggered.
C6_NoWeatherBesideError ==
    error # null =>
        /\ error \in Messages
        /\ ~(weather # null /\ weatherAt < errorOf)

\* C7 as stated: a trigger starts at most one position request and at most one
\* forecast, a cycle that failed has nothing outstanding, and at most one
\* cycle is in flight at any moment.
C7_SingleCycle ==
    /\ \A cycle \in 1 .. triggers :
          /\ issued[cycle].positions <= 1
          /\ issued[cycle].forecasts <= 1
          /\ outcome[cycle] # "pending" => cycle \notin InFlight
    /\ Cardinality(InFlight) <= 1

\* C7 amended: a trigger starts at most one position request and at most one
\* forecast, a cycle that ended has nothing outstanding and each cycle has at
\* most one operation outstanding; the cycles of different triggers can be in
\* flight together, never more of them than triggers.
C7_OneCyclePerTrigger ==
    /\ \A cycle \in 1 .. triggers :
          /\ issued[cycle].positions <= 1
          /\ issued[cycle].forecasts <= 1
          /\ outcome[cycle] # "pending" => cycle \notin InFlight
    /\ Cardinality(positionRequests) + Cardinality(nameLookups)
          + Cardinality(forecasts) = Cardinality(InFlight)
    /\ Cardinality(InFlight) <= triggers

\* Two cycles in flight after the forecast of an earlier one failed.
C7_Witness ==
    /\ Cardinality(InFlight) = 2
    /\ \E cycle \in 1 .. triggers :
          /\ outcome[cycle] = "no weather"
          /\ issued[cycle].positions = 1 /\ issued[cycle].forecasts = 1

\* C8: loading is true whenever a position request, a name lookup or a
\* forecast is outstanding.
C8_LoadingWhileInFlight ==
    InFlight # {} => loading

\* C9: given that every started operation settles, a cycle that is pending is
\* followed by a state where loading is false and the weather is the one that
\* cycle set or an error is set; a trigger without geolocation is such a state
\* at once.
C9_CycleEnds ==
    /\ \A cycle \in Cycles :
          (triggers >= cycle /\ outcome[cycle] = "pending")
              ~> (~loading /\ (weatherOf = cycle \/ error # null))
    /\ [](\A cycle \in 1 .. triggers :
             (outcome[cycle] = "unsupported") => (~loading /\ error # null))

\* The second of two overlapping cycles has set the weather and ended the
\* loading, after the first one failed.
C9_Witness ==
    /\ triggers >= 2
    /\ outcome[1] = "no weather" /\ outcome[2] = "weather"
    /\ weatherOf = 2 /\ ~loading /\ InFlight = {}

\* C10: once nothing is outstanding, if the forecast of the location set last
\* resolved, the weather held is that forecast's.
C10_NewestForecastWins ==
    (InFlight = {} /\ locationOf # 0 /\ outcome[locationOf] = "weather")
        => weatherOf = locationOf

---------------------------------------------------------------------------
(* Driver of the decision: a whole-number observation is normalized, the    *)
(* record is decided on, then decided on again at a lower perceived         *)
(* temperature with its other fields kept.                                  *)

EvalObservations ==
    [temperature : {10 * d : d \in (15 - DegSpan) .. (20 + DegSpan)},
     precipitation : RawPrecipitations,
     windSpeed : {10 * (HIGH_WIND_THRESHOLD + k) : k \in -1 .. 1},
     humidity : {500}]

EvaluatorInit ==
    /\ HomeInit
    /\ hasGeolocation = TRUE
    /\ raw \in EvalObservations
    /\ clock \in Hours
    /\ prevRaw = null
    /\ prevWeather = null
    /\ takeCoat = FALSE
    /\ pc = "raw"

\* Line 256: the render calls shouldTakeCoat() on the weather held.
Decide ==
    /\ pc = "normalized"
    /\ takeCoat' = shouldTakeCoat(weather)
    /\ pc' = "decided"
    /\ UNCHANGED <<component, weather, raw, clock, prevRaw, prevWeather>>

Colder ==
    /\ pc = "decided"
    /\ \E d \in 1 .. MaxColder :
          weather' = [weather EXCEPT !.perceivedTemp = @ - d]
    /\ prevWeather' = weather
    /\ takeCoat' = shouldTakeCoat(weather')
    /\ pc' = "colder"
    /\ UNCHANGED <<component, raw, clock, prevRaw>>

EvaluatorNext == Normalize \/ Decide \/ Colder

EvaluatorSpec == EvaluatorInit /\ [][EvaluatorNext]_vars

---------------------------------------------------------------------------
(* Properties of the decision *)

Decided == pc \in {"decided", "colder"}

C5_MonotoneInColdness ==
    /\ (Decided /\ weather.perceivedTemp < 15) => takeCoat
    /\ (pc = "colder" /\ shouldTakeCoat(prevWeather)) => takeCoat

\* A dry night record of 17 degrees, made 16 degrees: the night rule still
\* asks for the coat.
C5_Witness ==
    /\ pc = "colder"
    /\ ~weather.isRainy /\ weather.windSpeed <= 20 /\ weather.hour = 23
    /\ prevWeather.perceivedTemp = 17 /\ weather.perceivedTemp = 16
    /\ shouldTakeCoat(prevWeather)
    /\ takeCoat

---------------------------------------------------------------------------
(* Properties of the normalizer *)

\* The sum the perceived temperature is the rounding of, in thousandths: the
\* raw temperature, less a tenth of the wind above 20 km/h, plus a tenth
\* (above 20 degrees) or less a twentieth (at 20 degrees or below) of the
\* humidity above 70 %, less 2 degrees before 6 and after 18 o'clock.
AdjustedSum(r, h) ==
    r.temperature * 100
    - (IF r.windSpeed > 200 THEN (r.windSpeed - 200) * 10 ELSE 0)
    + (IF r.humidity > 700 /\ r.temperature > 200 THEN (r.humidity - 700) * 10 ELSE 0)
    - (IF r.humidity > 700 /\ r.temperature <= 200 THEN (r.humidity - 700) * 5 ELSE 0)
    - (IF h < 6 \/ h > 18 THEN 2000 ELSE 0)

\* C2: every normalized record holds an integer perceived temperature p that
\* is the rounding of the adjusted sum t of its raw observation, rounded once
\* at the end (p - 0.5 <= t < p + 0.5), negative wind and humidity above 100
\* included.
C2_PerceivedIsRoundedSum ==
    pc # "raw" =>
        /\ weather.perceivedTemp \in Int
        /\ 1000 * weather.perceivedTemp - 500 <= AdjustedSum(raw, clock)
        /\ AdjustedSum(raw, clock) < 1000 * weather.perceivedTemp + 500

\* 20.5 degrees, wind 21.5 km/h, humidity 110 %, 19 o'clock: 20.5 - 0.15 +
\* 4.0 - 2 = 22.35, shown as 22 (rounding the readings first would give 23).
C2_Witness ==
    /\ pc = "normalized"
    /\ raw.temperature = 205 /\ raw.windSpeed = 215 /\ raw.humidity = 1100
    /\ clock = 19
    /\ weather.perceivedTemp = 22

WholeNumbers(r) ==
    r.temperature % 10 = 0 /\ r.windSpeed % 10 = 0 /\ r.humidity % 10 = 0

\* C3 as stated: normalizing again the record's rounded temperature, wind
\* speed and humidity at the same hour gives the same perceived temperature.
C3_RenormalizeSame ==
    pc = "renormalized" => weather.perceivedTemp = prevWeather.perceivedTemp

\* C3 amended: it does when the raw temperature, wind speed and humidity were
\* whole numbers.
C3_RenormalizeSameWhenWhole ==
    (pc = "renormalized" /\ WholeNumbers(prevRaw))
        => weather.perceivedTemp = prevWeather.perceivedTemp

C3_Witness ==
    /\ pc = "renormalized"
    /\ WholeNumbers(prevRaw)
    /\ prevRaw.windSpeed > 200 /\ prevRaw.humidity > 700 /\ clock > 18
    /\ weather.perceivedTemp = prevWeather.perceivedTemp
    /\ weather.perceivedTemp # weather.temperature

\* C4 as stated: more wind above 20 km/h strictly lowers the perceived
\* temperature returned; more humidity above 70 % strictly raises it above
\* 20 degrees and strictly lowers it at 20 degrees or below.
C4_StrictlyMonotone ==
    /\ pc = "windier" => weather.perceivedTemp < prevWeather.perceivedTemp
    /\ (pc = "more humid" /\ raw.temperature > 200)
          => weather.perceivedTemp > prevWeather.perceivedTemp
    /\ (pc = "more humid" /\ raw.temperature <= 200)
          => weather.perceivedTemp < prevWeather.perceivedTemp

\* C4 amended: more wind above 20 km/h never raises the perceived temperature
\* returned and lowers it when the wind grows by 10 km/h or more; more
\* humidity above 70 % never lowers it above 20 degrees and raises it when the
\* humidity grows by 10 points or more; at 20 degrees or below it never raises
\* it and lowers it when the humidity grows by 20 points or more.
C4_Monotone ==
    /\ pc = "windier" =>
          /\ weather.perceivedTemp <= prevWeather.perceivedTemp
          /\ raw.windSpeed - prevRaw.windSpeed >= 100
                => weather.perceivedTemp < prevWeather.perceivedTemp
    /\ (pc = "more humid" /\ raw.temperature > 200) =>
          /\ weather.perceivedTemp >= prevWeather.perceivedTemp
          /\ raw.humidity - prevRaw.humidity >= 100
                => weather.perceivedTemp > prevWeather.perceivedTemp
    /\ (pc = "more humid" /\ raw.temperature <= 200) =>
          /\ weather.perceivedTemp <= prevWeather.perceivedTemp
          /\ raw.humidity - prevRaw.humidity >= 200
                => weather.perceivedTemp < prevWeather.perceivedTemp

\* Wind from 20.5 to 30.5 km/h at 20.4 degrees: 20 becomes 19.
C4_Witness ==
    /\ pc = "windier"
    /\ prevRaw.windSpeed = 205 /\ raw.windSpeed = 305 /\ raw.temperature = 204
    /\ raw.humidity = 700 /\ clock = 12
    /\ prevWeather.perceivedTemp = 20 /\ weather.perceivedTemp = 19

=============================================================================
